---- MODULE Spec2Model ----
(***************************************************************************)
(* joshdk/drone-github-comment: one run of the plugin (mainCmd) against a  *)
(* DroneCI server and a GitHub pull request, and the pure helpers it uses. *)
(*                                                                         *)
(* Strings.  A Go string is modelled as a sequence of tokens, its text     *)
(* being the concatenation of the tokens.  A token is a piece of text the  *)
(* code never looks inside: one of the characters the code tests for       *)
(* ("=", ")", "+", a white space character, a digit), the literal          *)
(* "[//]: # (" the metadata regex starts with, or a word that contains     *)
(* none of these.  On such strings the operators below compute what the Go *)
(* code computes.                                                          *)
(***************************************************************************)
EXTENDS Integers, Sequences, FiniteSets, TLC

\* ------------------------------------------------------------------ bounds

\* The most runs of the plugin on the pull request, where runs are repeated.
MaxRuns == 2

\* The most comments that are on the pull request before the first run.
MaxComments == 2

\* The most stages of a build, and the most steps of a stage, where the
\* resolver is applied on its own.
MaxStages == 2
MaxSteps == 2

\* The most log lines of a step, where the curation is applied on its own.
MaxLines == 4

\* The most lines of a comment body, where the matcher is applied on its own.
MaxBodyLines == 3

\* The most curated log lines of a comment, where the template is applied on
\* its own.
MaxLogs == 2

\* ----------------------------------------------------------------- strings

NL == "\n"
CR == "\r"
MetaOpen == "[//]: # ("

\* unicode.IsSpace, on the white space of the model's alphabet.
IsSpace(t) == t \in {" ", "\t", NL, CR}

Digits == <<"0", "1", "2", "3", "4", "5", "6", "7", "8", "9">>

IsDigit(t) == \E i \in 1..10 : Digits[i] = t

DigitVal(t) == (CHOOSE i \in 1..10 : Digits[i] = t) - 1

RECURSIVE TrimLeftSpace(_)
TrimLeftSpace(s) ==
    IF s # <<>> /\ IsSpace(Head(s)) THEN TrimLeftSpace(Tail(s)) ELSE s

RECURSIVE TrimRightSpace(_)
TrimRightSpace(s) ==
    IF s # <<>> /\ IsSpace(s[Len(s)])
    THEN TrimRightSpace(SubSeq(s, 1, Len(s) - 1))
    ELSE s

\* strings.TrimSpace
TrimSpace(s) == TrimRightSpace(TrimLeftSpace(s))

\* strings.TrimSuffix(s, "\n"): one newline only.
TrimRightNewline_Once(s) ==
    IF s # <<>> /\ s[Len(s)] = NL THEN SubSeq(s, 1, Len(s) - 1) ELSE s

\* strings.TrimRight(s, "\n")
RECURSIVE TrimRightNewline(_)
TrimRightNewline(s) ==
    IF s # <<>> /\ s[Len(s)] = NL
    THEN TrimRightNewline(SubSeq(s, 1, Len(s) - 1))
    ELSE s

\* strings.HasPrefix(s, "+")
HasPlusPrefix(s) == s # <<>> /\ Head(s) = "+"

RECURSIVE DigitsValue(_)
DigitsValue(s) ==
    IF s = <<>> THEN 0
    ELSE 10 * DigitsValue(SubSeq(s, 1, Len(s) - 1)) + DigitVal(s[Len(s)])

\* strconv.Atoi: an optional sign, then one or more decimal digits.
AtoiDigits(s) == IF s # <<>> /\ Head(s) \in {"+", "-"} THEN Tail(s) ELSE s

RECURSIVE DropZeros(_)
DropZeros(s) ==
    IF s # <<>> /\ Head(s) = "0" THEN DropZeros(Tail(s)) ELSE s

\* The decimal digits of 1<<63, the cutoff of ParseInt at the 64 bits of an
\* int: a number without a "-" is below it, one with a "-" is not above it.
IntCutoff ==
    <<"9", "2", "2", "3", "3", "7", "2", "0", "3", "6",
      "8", "5", "4", "7", "7", "5", "8", "0", "8">>

\* a < b, of two digit sequences of one length.
DigitsLess(a, b) ==
    \E i \in 1..Len(a) :
        /\ DigitVal(a[i]) < DigitVal(b[i])
        /\ \A j \in 1..(i - 1) : a[j] = b[j]

\* The value of the digits is in the range of an int of the sign: decided on
\* the digits, as the value itself is what does not fit.
AtoiInRange(s) ==
    LET d == DropZeros(AtoiDigits(s))
    IN \/ Len(d) < Len(IntCutoff)
       \/ /\ Len(d) = Len(IntCutoff)
          /\ \/ DigitsLess(d, IntCutoff)
             \/ Head(s) = "-" /\ d = IntCutoff

\* err == nil: the syntax is a number's and its value is in the range.
AtoiOk(s) ==
    /\ AtoiDigits(s) # <<>>
    /\ \A i \in 1..Len(AtoiDigits(s)) : IsDigit(AtoiDigits(s)[i])
    /\ AtoiInRange(s)

Atoi(s) ==
    IF Head(s) = "-" THEN 0 - DigitsValue(AtoiDigits(s))
    ELSE DigitsValue(AtoiDigits(s))

RECURSIVE NatString(_)
NatString(n) ==
    IF n < 10 THEN <<Digits[n + 1]>>
    ELSE NatString(n \div 10) \o <<Digits[(n % 10) + 1]>>

\* The text/template printing of an int (fmt's %v).
IntString(n) == IF n < 0 THEN <<"-">> \o NatString(0 - n) ELSE NatString(n)

\* strconv.ParseBool, with the error case already turned into false as
\* mainCmd does.
ParseBoolOrFalse(s) ==
    s \in {<<"1">>, <<"t">>, <<"T">>, <<"TRUE">>, <<"true">>, <<"True">>}

\* --------------------------------------------------------- hasMarkdownLabels

\* bufio.MaxScanTokenSize, the most bytes the buffer of a bufio.Scanner
\* grows to.
MaxScanTokenSize == 65536

\* A token that stands for a run of MaxScanTokenSize - 1 bytes of the
\* letter x.
LongRun == "x...x"

\* The bytes of a token: those of its text, of the glyph it stands for, of
\* the run it stands for.
TokenBytes(t) ==
    IF t = LongRun THEN MaxScanTokenSize - 1
    ELSE IF t \in {"PASS", "FAIL"} THEN 3
    ELSE Len(t)

RECURSIVE ByteLen(_)
ByteLen(s) == IF s = <<>> THEN 0 ELSE TokenBytes(Head(s)) + ByteLen(Tail(s))

\* bufio.ScanLines: a line without one trailing carriage return.
DropCR(line) ==
    IF line # <<>> /\ line[Len(line)] = CR
    THEN SubSeq(line, 1, Len(line) - 1)
    ELSE line

\* The lines scanner.Scan() gives before it returns false: the lines
\* between the newlines, no last line when the text ends with a newline.
\* At a line of MaxScanTokenSize bytes or more the buffer is full before the
\* line's end is found: Scan returns false (bufio.ErrTooLong, which the
\* loop does not look at) and neither that line nor a later one is given.
RECURSIVE ScanFrom(_, _, _)
ScanFrom(text, i, cur) ==
    IF i > Len(text) \/ text[i] = NL
    THEN IF ByteLen(cur) >= MaxScanTokenSize THEN <<>>
         ELSE IF i > Len(text)
              THEN (IF cur = <<>> THEN <<>> ELSE <<DropCR(cur)>>)
              ELSE <<DropCR(cur)>> \o ScanFrom(text, i + 1, <<>>)
    ELSE ScanFrom(text, i + 1, Append(cur, text[i]))

ScanLines(text) == ScanFrom(text, 1, <<>>)

\* regexMarkdownMetadata: ^\[//\]: # \(([^=]+)=(.*)\)
\* The key runs to the first "=", the value (greedy) to the last ")".
FirstEq(line) ==
    IF \E i \in 1..Len(line) : line[i] = "="
    THEN CHOOSE i \in 1..Len(line) :
            line[i] = "=" /\ \A j \in 1..(i - 1) : line[j] # "="
    ELSE 0

LastClose(line) ==
    IF \E i \in 1..Len(line) : line[i] = ")"
    THEN CHOOSE i \in 1..Len(line) :
            line[i] = ")" /\ \A j \in (i + 1)..Len(line) : line[j] # ")"
    ELSE 0

\* FindStringSubmatch(line) has three elements.
regexMarkdownMetadata(line) ==
    /\ line # <<>>
    /\ Head(line) = MetaOpen
    /\ FirstEq(line) > 2
    /\ LastClose(line) > FirstEq(line)

MatchKey(line) == SubSeq(line, 2, FirstEq(line) - 1)

MatchVal(line) == SubSeq(line, FirstEq(line) + 1, LastClose(line) - 1)

\* extracted[key] = val
MapPut(m, key, val) ==
    [k \in DOMAIN m \cup {key} |-> IF k = key THEN val ELSE m[k]]

EmptyMap == [k \in {} |-> <<>>]

RECURSIVE Extract(_, _)
Extract(lines, extracted) ==
    IF lines = <<>> THEN extracted
    ELSE Extract(Tail(lines),
                 IF regexMarkdownMetadata(Head(lines))
                 THEN MapPut(extracted,
                             TrimSpace(MatchKey(Head(lines))),
                             TrimSpace(MatchVal(Head(lines))))
                 ELSE extracted)

\* The subset check without the comparison of the values.
hasMarkdownLabels_KeysOnly(comment, labels) ==
    LET extracted == Extract(ScanLines(comment), EmptyMap)
    IN \A labelKey \in DOMAIN labels : labelKey \in DOMAIN extracted

hasMarkdownLabels(comment, labels) ==
    LET extracted == Extract(ScanLines(comment), EmptyMap)
    IN \A labelKey \in DOMAIN labels :
          /\ labelKey \in DOMAIN extracted
          /\ extracted[labelKey] = labels[labelKey]

\* -------------------------------------------------- resolveBuildStageAndStep

StatusPassing == <<"success">>
StatusFailing == <<"failure">>

NotFound == [stageNumber |-> 0, stepNumber |-> 0, status |-> <<>>,
             found |-> FALSE]

RECURSIVE ResolveStep(_, _, _)
ResolveStep(stage, steps, stepName) ==
    IF steps = <<>> THEN NotFound
    ELSE IF Head(steps).Name # stepName
         THEN ResolveStep(stage, Tail(steps), stepName)
         ELSE [stageNumber |-> stage.Number,
               stepNumber |-> Head(steps).Number,
               status |-> Head(steps).Status,
               found |-> TRUE]

\* The scan of the stages without the break: a stage of the name that has no
\* step of the name is passed over like a stage of another name.
RECURSIVE ResolveStage_FallsThrough(_, _, _)
ResolveStage_FallsThrough(stages, stageName, stepName) ==
    IF stages = <<>> THEN NotFound
    ELSE IF Head(stages).Name = stageName
            /\ ResolveStep(Head(stages), Head(stages).Steps, stepName).found
         THEN ResolveStep(Head(stages), Head(stages).Steps, stepName)
         ELSE ResolveStage_FallsThrough(Tail(stages), stageName, stepName)

\* The scan of the stages: a stage of another name is passed over; the
\* first stage of the name decides (the break after its steps).
RECURSIVE ResolveStage(_, _, _)
ResolveStage(stages, stageName, stepName) ==
    IF stages = <<>> THEN NotFound
    ELSE IF Head(stages).Name # stageName
         THEN ResolveStage(Tail(stages), stageName, stepName)
         ELSE ResolveStep(Head(stages), Head(stages).Steps, stepName)

resolveBuildStageAndStep(build, stageName, stepName) ==
    ResolveStage(build.Stages, stageName, stepName)

\* ------------------------------------------------------------- log curation

\* The loop with the flag the other way round.
RECURSIVE KeepLogs_FlagInverted(_, _)
KeepLogs_FlagInverted(lines, verbatim) ==
    IF lines = <<>> THEN <<>>
    ELSE LET log == TrimRightNewline(Head(lines))
         IN (IF ~verbatim \/ ~HasPlusPrefix(log) THEN <<log>> ELSE <<>>)
            \o KeepLogs_FlagInverted(Tail(lines), verbatim)

\* mainCmd's loop over the fetched lines: the message without its trailing
\* newlines, dropped when it starts with "+" unless verbatim is set.
RECURSIVE KeepLogs(_, _)
KeepLogs(lines, verbatim) ==
    IF lines = <<>> THEN <<>>
    ELSE LET log == TrimRightNewline(Head(lines))
         IN (IF verbatim \/ ~HasPlusPrefix(log) THEN <<log>> ELSE <<>>)
            \o KeepLogs(Tail(lines), verbatim)

RECURSIVE TrimFront(_)
TrimFront(logs) ==
    IF logs # <<>> /\ TrimSpace(Head(logs)) = <<>>
    THEN TrimFront(Tail(logs))
    ELSE logs

RECURSIVE TrimBack(_)
TrimBack(logs) ==
    IF logs # <<>> /\ TrimSpace(logs[Len(logs)]) = <<>>
    THEN TrimBack(SubSeq(logs, 1, Len(logs) - 1))
    ELSE logs

\* The blank lines discarded wherever they are.
trimBlankLogs_Everywhere(logs) ==
    SelectSeq(logs, LAMBDA log : TrimSpace(log) # <<>>)

trimBlankLogs(logs) == TrimBack(TrimFront(logs))

CurateLogs(lines, verbatim) == trimBlankLogs(KeepLogs(lines, verbatim))

\* ---------------------------------------------------------- templateComment

\* The labels of one run: map[string]string{"stage": ..., "step": ...}.
LabelKeys == {<<"stage">>, <<"step">>}

Labels(stage, step) ==
    [k \in LabelKeys |-> IF k = <<"stage">> THEN stage ELSE step]

\* {{ slice .SHA 0 7 }} is an error on a string shorter than 7.
ShortSHALen == 7

\* The slice that takes one character more.
TemplateOk_OneMore(params) == Len(params.SHA) > ShortSHALen

TemplateOk(params) == Len(params.SHA) >= ShortSHALen

\* The code fence of the template, three backquotes; SANY reads no backquote
\* in a string, so the fence is named.
FenceOpen == "~~~text"
FenceClose == "~~~"

RECURSIVE RangeLogs(_)
RangeLogs(logs) ==
    IF logs = <<>> THEN <<>>
    ELSE <<NL>> \o Head(logs) \o RangeLogs(Tail(logs))

\* comment.tpl executed on params, up to the action {{ slice .SHA 0 7 }}: the
\* text that is in the buffer when that action fails.  The template has no
\* action that reads .Labels.  "PASS" and "FAIL" stand for its two status
\* glyphs.
TemplateHead(params) ==
    <<IF params.Status = StatusPassing THEN "PASS" ELSE "FAIL">>
    \o <<" Build output from step [">> \o params.StepName \o <<"](">>
    \o params.DroneServer \o <<"/">> \o params.RepoOwner
    \o <<"/">> \o params.RepoName
    \o <<"/">> \o IntString(params.BuildNumber)
    \o <<"/">> \o IntString(params.StageNumber)
    \o <<"/">> \o IntString(params.StepNumber)
    \o <<") on commit [">>

\* comment.tpl executed on params to its end.
TemplateText(params) ==
    TemplateHead(params) \o SubSeq(params.SHA, 1, ShortSHALen)
    \o <<"](https://github.com/">> \o params.RepoOwner
    \o <<"/">> \o params.RepoName
    \o <<"/pull/">> \o IntString(params.PullRequest)
    \o <<"/commits/">> \o params.SHA \o <<"):">>
    \o <<NL, NL, FenceOpen>>
    \o RangeLogs(params.Logs)
    \o <<NL, FenceClose>>

\* buf.String(), err: on the error of Execute the buffer holds what was
\* written before the failing action.
templateComment(params) ==
    [ok |-> TemplateOk(params),
     body |-> IF TemplateOk(params) THEN TemplateText(params)
              ELSE TemplateHead(params)]

\* ------------------------------------------------------------------ inputs

\* The environment of a run whose settings are all given and valid.
BaseEnv ==
    [pullRequest |-> <<"1", "2", "3">>,
     buildNumber |-> <<"4", "2">>,
     commitSHA |-> <<"b", "c", "d", "d", "4", "b", "f", "0">>,
     repoName |-> <<"hello-world">>,
     repoOwner |-> <<"octocat">>,
     systemProto |-> <<"http">>,
     systemHostname |-> <<"drone.mycompany.com">>,
     droneToken |-> <<"hmNo">>,
     githubToken |-> <<"ghp_cviM">>,
     keep |-> <<>>,
     stage |-> <<"a">>,
     step |-> <<"x">>,
     when |-> <<>>,
     verbatim |-> <<>>]

\* The settings mainCmd refuses to run without, in the order of its switch.
Required ==
    <<"pullRequest", "buildNumber", "commitSHA", "repoName", "repoOwner",
      "systemProto", "systemHostname", "droneToken", "githubToken", "stage",
      "step">>

RequiredSet == {Required[i] : i \in 1..Len(Required)}

Without(env, fields) ==
    [f \in DOMAIN env |-> IF f \in fields THEN <<>> ELSE env[f]]

StageNames == {<<"a">>, <<"b">>}
StepNames == {<<"x">>, <<"y">>}
WhenValues == {<<>>, <<"always">>, <<"success">>, <<"failure">>}
BoolValues == {<<>>, <<"true">>}

ValidEnvs ==
    {[BaseEnv EXCEPT !.stage = sg, !.step = st, !.when = w, !.keep = k,
                     !.verbatim = v] :
        sg \in StageNames, st \in StepNames, w \in WhenValues,
        k \in BoolValues, v \in BoolValues}

\* Environments with settings missing: any one, two or three of the
\* required settings, and all of them.
MissingEnvs ==
    {Without(BaseEnv, fields) :
        fields \in {f \in SUBSET RequiredSet :
                       Cardinality(f) \in 1..3 \/ f = RequiredSet}}

\* Environments with numbers that do not parse or parse with a sign, with
\* numbers beyond the range of an int, by many and by one, with a flag that
\* does not parse, and with commits that are shorter than the
\* template's slice, by some characters and by one, and as long as it.
OddEnvs ==
    {[BaseEnv EXCEPT !.buildNumber = <<"4", "x">>],
     [BaseEnv EXCEPT !.pullRequest = <<"#", "1">>],
     [BaseEnv EXCEPT !.pullRequest = <<"-", "5">>],
     [BaseEnv EXCEPT !.buildNumber = [i \in 1..20 |-> "9"]],
     [BaseEnv EXCEPT !.pullRequest = IntCutoff],
     [BaseEnv EXCEPT !.keep = <<"yes">>],
     [BaseEnv EXCEPT !.commitSHA = <<"a", "b", "c">>],
     [BaseEnv EXCEPT !.commitSHA = <<"b", "c", "d", "d", "4", "b">>],
     [BaseEnv EXCEPT !.commitSHA = <<"b", "c", "d", "d", "4", "b", "f">>]}

AllEnvs == ValidEnvs \cup MissingEnvs \cup OddEnvs

\* The environments of runs that are repeated on one pull request: all
\* valid, for either step of stage a, with history kept or not.
RepeatEnvs ==
    {[BaseEnv EXCEPT !.step = st, !.when = w, !.keep = k] :
        st \in StepNames, w \in {<<>>, <<"failure">>}, k \in BoolValues}

\* The environments of pipeline instances that run side by side: all
\* valid, history not kept, and differing in the stage and the step.
SideBySideEnvs ==
    {[BaseEnv EXCEPT !.stage = sg, !.step = st] :
        sg \in StageNames, st \in StepNames}

Step(name, number, status) ==
    [Name |-> name, Number |-> number, Status |-> status]

Stage(name, number, steps) ==
    [Name |-> name, Number |-> number, Steps |-> steps]

\* The builds the DroneCI server answers with.
Builds ==
    {[Stages |->
        <<Stage(<<"a">>, 1, <<Step(<<"x">>, 1, StatusPassing),
                              Step(<<"y">>, 2, StatusFailing)>>),
          Stage(<<"b">>, 2, <<Step(<<"x">>, 1, <<"running">>)>>)>>],
     [Stages |->
        <<Stage(<<"a">>, 1, <<Step(<<"clone">>, 1, StatusPassing),
                              Step(<<"x">>, 2, StatusFailing),
                              Step(<<"y">>, 3, <<"running">>)>>),
          Stage(<<"b">>, 2, <<Step(<<"x">>, 1, StatusPassing)>>)>>],
     [Stages |->
        <<Stage(<<"a">>, 1, <<Step(<<"y">>, 1, StatusFailing)>>),
          Stage(<<"b">>, 2, <<Step(<<"x">>, 1, StatusPassing)>>)>>]}

MetaLine(key, val) == <<MetaOpen>> \o key \o <<"=">> \o val \o <<")">>

\* The step logs the DroneCI server answers with: ordinary output, no
\* output, and output that has the form of the metadata lines.
LogSets ==
    {<<<<NL>>, <<"+", "ls", NL>>, <<"ok", NL>>, <<" ", NL>>>>,
     <<>>,
     <<MetaLine(<<"stage">>, <<"a">>) \o <<NL>>,
       MetaLine(<<"step">>, <<"y">>) \o <<NL>>>>}

\* The identity the GitHub token belongs to, and another user's.
BotLogin == <<"bot">>
OtherLogin == <<"alice">>

MetaBody(stage, step) ==
    MetaLine(<<"stage">>, stage) \o <<NL>> \o MetaLine(<<"step">>, step)

\* A body whose stage is given twice, with white space around the key and
\* the value, and with text after the closing parenthesis, and whose step is
\* given again after a line of MaxScanTokenSize bytes: stage a, step x as
\* the matcher reads it.
OverriddenBody ==
    MetaLine(<<"stage">>, <<"b">>) \o <<NL, "LGTM", NL>>
    \o MetaLine(<<" ", "stage">>, <<"a", " ">>) \o <<CR, NL>>
    \o MetaLine(<<"step">>, <<"x">>) \o <<" ", "thanks", NL>>
    \o <<LongRun, "y", NL>> \o MetaLine(<<"step">>, <<"y">>)

\* What a comment that is on the pull request before the first run may be.
ExistingPool ==
    {[user |-> BotLogin, body |-> MetaBody(<<"a">>, <<"x">>)],
     [user |-> BotLogin, body |-> MetaBody(<<"a">>, <<"y">>)],
     [user |-> OtherLogin, body |-> MetaBody(<<"a">>, <<"x">>)],
     [user |-> BotLogin, body |-> MetaLine(<<"stage">>, <<"a">>)],
     [user |-> BotLogin, body |-> OverriddenBody]}

\* ------------------------------------------------------------------- state

VARIABLES
    procs,      \* the pipeline instances that may run the plugin
    limit,      \* the number of runs the pipeline starts
    comments,   \* GitHub: the comments of the pull request, oldest first
    nextId,     \* GitHub: the id of the next comment created
    runs,       \* the number of runs started so far
    run,        \* per instance: the variables of mainCmd and its position
    fn          \* a helper of mainCmd applied on its own: its arguments
                \* and results

vars == <<procs, limit, comments, nextId, runs, run, fn>>

Instances == {1, 2}

NoLabels == Labels(<<>>, <<>>)

\* A comment that no run of the model created.
NoTag == [run |-> 0, labels |-> NoLabels, keep |-> FALSE]

\* No build is fetched.
NoBuild == [Stages |-> <<>>]

Idle ==
    [pc |-> "idle", env |-> BaseEnv, ordinal |-> 0, before |-> <<>>,
     calls |-> <<>>, result |-> "none", err |-> "", droneBuild |-> NoBuild,
     droneBuildNumberInt |-> 0, dronePullRequestInt |-> 0,
     pluginKeepBool |-> FALSE, pluginVerbatimBool |-> FALSE,
     githubUser |-> <<>>, stageNumber |-> 0, stepNumber |-> 0,
     status |-> <<>>, labels |-> NoLabels, existingComments |-> <<>>,
     index |-> 0, comment |-> <<>>, created |-> 0]

\* A remote call, as the run made it: which, whether it succeeded, and the
\* comment it was about (0 when about none).
Call(op, ok, id) == [op |-> op, ok |-> ok, id |-> id]

\* return err / return nil
Return(r, result, err) == [r EXCEPT !.pc = "done", !.result = result, !.err = err]

RECURSIVE NumberFrom(_, _)
NumberFrom(cs, id) ==
    IF cs = <<>> THEN <<>>
    ELSE <<[id |-> id, user |-> Head(cs).user, body |-> Head(cs).body,
            tag |-> NoTag]>>
         \o NumberFrom(Tail(cs), id + 1)

ExistingLists ==
    UNION {[1..n -> ExistingPool] : n \in 0..MaxComments}

\* No helper is applied on its own.
NoCall == [pc |-> "none"]

InitWith(instances, count, lists) ==
    /\ fn = NoCall
    /\ procs = instances
    /\ limit = count
    /\ \E cs \in lists :
          /\ comments = NumberFrom(cs, 1)
          /\ nextId = Len(cs) + 1
    /\ runs = 0
    /\ run = [p \in Instances |-> Idle]

\* One run of the plugin on a pull request that has any comments.
Init == InitWith({1}, 1, ExistingLists)

\* One instance, whose runs on the pull request follow one another.
InitRuns == InitWith({1}, MaxRuns, ExistingLists)

\* Two instances of one pipeline, whose runs interleave.
InitSideBySide ==
    InitWith(Instances, MaxRuns, {cs \in ExistingLists : Len(cs) <= 1})

\* The environments a run is started with.
Envs ==
    IF procs = Instances THEN SideBySideEnvs
    ELSE IF limit > 1 THEN RepeatEnvs
    ELSE AllEnvs

\* ----------------------------------------------------------------- mainCmd

\* The process starts: os.Getenv of every setting.
Start(p) ==
    /\ p \in procs
    /\ run[p].pc \in {"idle", "done"}
    /\ runs < limit
    /\ runs' = runs + 1
    /\ \E env \in Envs :
          run' = [run EXCEPT ![p] =
                    [Idle EXCEPT !.pc = "validate", !.env = env,
                                 !.ordinal = runs + 1, !.before = comments]]
    /\ UNCHANGED <<fn, procs, limit, comments, nextId>>

\* The switch with the pull-request case after the others.
FirstMissing_PullRequestLast(env) ==
    IF \E i \in 2..Len(Required) : env[Required[i]] = <<>>
    THEN CHOOSE i \in 2..Len(Required) :
            /\ env[Required[i]] = <<>>
            /\ \A j \in 2..(i - 1) : env[Required[j]] # <<>>
    ELSE IF env[Required[1]] = <<>> THEN 1
    ELSE 0

\* The switch without its last case, the one of the step.
FirstMissing_StepOptional(env) ==
    IF \E i \in 1..(Len(Required) - 1) : env[Required[i]] = <<>>
    THEN CHOOSE i \in 1..(Len(Required) - 1) :
            /\ env[Required[i]] = <<>>
            /\ \A j \in 1..(i - 1) : env[Required[j]] # <<>>
    ELSE 0

\* The first required setting that is empty, in the order of the switch;
\* 0 when none is.
FirstMissing(env) ==
    IF \E i \in 1..Len(Required) : env[Required[i]] = <<>>
    THEN CHOOSE i \in 1..Len(Required) :
            /\ env[Required[i]] = <<>>
            /\ \A j \in 1..(i - 1) : env[Required[j]] # <<>>
    ELSE 0

\* The validation of the settings and the parsing of the numbers and flags.
Validate(p) ==
    LET r == run[p]
        env == r.env
        missing == FirstMissing(env)
    IN /\ r.pc = "validate"
       /\ run' = [run EXCEPT ![p] =
            IF missing = 1 THEN Return(r, "ok", "")
            ELSE IF missing > 1 THEN Return(r, "err", Required[missing])
            ELSE IF ~AtoiOk(env.buildNumber) THEN Return(r, "err", "Atoi")
            ELSE IF ~AtoiOk(env.pullRequest) THEN Return(r, "err", "Atoi")
            ELSE [r EXCEPT !.pc = "self",
                           !.droneBuildNumberInt = Atoi(env.buildNumber),
                           !.dronePullRequestInt = Atoi(env.pullRequest),
                           !.pluginKeepBool = ParseBoolOrFalse(env.keep),
                           !.pluginVerbatimBool = ParseBoolOrFalse(env.verbatim)]]
       /\ UNCHANGED <<fn, procs, limit, comments, nextId, runs>>

\* droneClient.Self()
DroneSelf(p) ==
    LET r == run[p]
    IN /\ r.pc = "self"
       /\ \E ok \in BOOLEAN :
            LET called == [r EXCEPT !.calls = Append(@, Call("Self", ok, 0))]
            IN run' = [run EXCEPT ![p] =
                  IF ok THEN [called EXCEPT !.pc = "user"]
                  ELSE Return(called, "err", "Self")]
       /\ UNCHANGED <<fn, procs, limit, comments, nextId, runs>>

\* githubClient.Users.Get(ctx, "")
GithubUser(p) ==
    LET r == run[p]
    IN /\ r.pc = "user"
       /\ \E ok \in BOOLEAN :
            LET called == [r EXCEPT !.calls = Append(@, Call("Users.Get", ok, 0))]
            IN run' = [run EXCEPT ![p] =
                  IF ok THEN [called EXCEPT !.pc = "build", !.githubUser = BotLogin]
                  ELSE Return(called, "err", "Users.Get")]
       /\ UNCHANGED <<fn, procs, limit, comments, nextId, runs>>

\* if !pluginKeepBool { ... }: where the run goes on after the labels.
AfterLabels_IgnoresKeep(pluginKeepBool) == "list"

AfterLabels(pluginKeepBool) == IF pluginKeepBool THEN "gate" ELSE "list"

\* droneClient.Build(...), then resolveBuildStageAndStep and the labels.
FetchBuild(p) ==
    LET r == run[p]
    IN /\ r.pc = "build"
       /\ \/ run' = [run EXCEPT ![p] =
                Return([r EXCEPT !.calls = Append(@, Call("Build", FALSE, 0))],
                       "err", "Build")]
          \/ \E build \in Builds :
                LET called == [r EXCEPT !.calls = Append(@, Call("Build", TRUE, 0)),
                                        !.droneBuild = build]
                    res == resolveBuildStageAndStep(build, r.env.stage, r.env.step)
                IN run' = [run EXCEPT ![p] =
                      IF ~res.found THEN Return(called, "err", "not found")
                      ELSE [called EXCEPT
                              !.stageNumber = res.stageNumber,
                              !.stepNumber = res.stepNumber,
                              !.status = res.status,
                              !.labels = Labels(r.env.stage, r.env.step),
                              !.pc = AfterLabels(r.pluginKeepBool)]]
       /\ UNCHANGED <<fn, procs, limit, comments, nextId, runs>>

\* The head of the loop without its check of the author.
ToDelete_AnyAuthor(existingComment, githubUser, labels) ==
    hasMarkdownLabels(existingComment.body, labels)

\* The head of the loop over existingComments: whether the comment is one
\* to delete (neither continue is taken).
ToDelete(existingComment, githubUser, labels) ==
    /\ existingComment.user = githubUser
    /\ hasMarkdownLabels(existingComment.body, labels)

\* The loop runs on from index `from` to the next comment it deletes; 0 when
\* it reaches the end of the list.
NextToDelete(existingComments, from, githubUser, labels) ==
    IF \E i \in from..Len(existingComments) :
          ToDelete(existingComments[i], githubUser, labels)
    THEN CHOOSE i \in from..Len(existingComments) :
            /\ ToDelete(existingComments[i], githubUser, labels)
            /\ \A j \in from..(i - 1) :
                  ~ToDelete(existingComments[j], githubUser, labels)
    ELSE 0

\* The loop that, at the end of a list that had comments, has the next page
\* listed.
Scan_ListsAgain(r, existingComments, from) ==
    LET next == NextToDelete(existingComments, from, r.githubUser, r.labels)
    IN [r EXCEPT !.existingComments = existingComments,
                 !.index = next,
                 !.pc = IF next # 0 THEN "delete"
                        ELSE IF existingComments = <<>> THEN "gate"
                        ELSE "list"]

Scan(r, existingComments, from) ==
    LET next == NextToDelete(existingComments, from, r.githubUser, r.labels)
    IN [r EXCEPT !.existingComments = existingComments,
                 !.index = next,
                 !.pc = IF next = 0 THEN "gate" ELSE "delete"]

\* githubClient.Issues.ListComments(...): GitHub answers with the comments
\* of the pull request (one page of them; the lists here are shorter than a
\* page); on an error the list is nil.
ListComments(p) ==
    LET r == run[p]
    IN /\ r.pc = "list"
       /\ \E ok \in BOOLEAN :
            LET called == [r EXCEPT !.calls = Append(@, Call("ListComments", ok, 0))]
            IN run' = [run EXCEPT ![p] =
                  Scan(called, IF ok THEN comments ELSE <<>>, 1)]
       /\ UNCHANGED <<fn, procs, limit, comments, nextId, runs>>

\* The run after the deletion call for the comment at its index: a failure
\* is logged and the loop continues.
AfterDelete_ReturnsError(r, ok) ==
    IF ok THEN Scan(r, r.existingComments, r.index + 1)
    ELSE Return(r, "err", "DeleteComment")

AfterDelete(r, ok) == Scan(r, r.existingComments, r.index + 1)

RemoveId(cs, id) == SelectSeq(cs, LAMBDA c : c.id # id)

HasId(cs, id) == \E i \in 1..Len(cs) : cs[i].id = id

\* githubClient.Issues.DeleteComment(...) of the comment the loop is at,
\* and the loop up to its next deletion.  The call fails when GitHub no
\* longer has the comment, and may fail when it has.
DeleteComment(p) ==
    LET r == run[p]
        id == r.existingComments[r.index].id
    IN /\ r.pc = "delete"
       /\ \E ok \in IF HasId(comments, id) THEN BOOLEAN ELSE {FALSE} :
            /\ comments' = IF ok THEN RemoveId(comments, id) ELSE comments
            /\ run' = [run EXCEPT ![p] =
                  AfterDelete([r EXCEPT !.calls =
                                  Append(@, Call("DeleteComment", ok, id))], ok)]
       /\ UNCHANGED <<fn, procs, limit, nextId, runs>>

\* The checks of the step's status against the when setting: the run
\* after them.
Gate_NoPolicySkip(r) ==
    IF r.status # StatusPassing /\ r.status # StatusFailing
    THEN Return(r, "err", "status")
    ELSE [r EXCEPT !.pc = "logs"]

\* The checks with the two policies taken for each other.
Gate_PolicyInverted(r) ==
    IF r.status # StatusPassing /\ r.status # StatusFailing
    THEN Return(r, "err", "status")
    ELSE IF r.status = StatusPassing /\ r.env.when = <<"success">>
    THEN Return(r, "ok", "")
    ELSE IF r.status = StatusFailing /\ r.env.when = <<"failure">>
    THEN Return(r, "ok", "")
    ELSE [r EXCEPT !.pc = "logs"]

Gate_AnyStatus(r) ==
    IF r.status = StatusPassing /\ r.env.when = <<"failure">>
    THEN Return(r, "ok", "")
    ELSE IF r.status = StatusFailing /\ r.env.when = <<"success">>
    THEN Return(r, "ok", "")
    ELSE [r EXCEPT !.pc = "logs"]

Gate(r) ==
    IF r.status # StatusPassing /\ r.status # StatusFailing
    THEN Return(r, "err", "status")
    ELSE IF r.status = StatusPassing /\ r.env.when = <<"failure">>
    THEN Return(r, "ok", "")
    ELSE IF r.status = StatusFailing /\ r.env.when = <<"success">>
    THEN Return(r, "ok", "")
    ELSE [r EXCEPT !.pc = "logs"]

StatusGate(p) ==
    /\ run[p].pc = "gate"
    /\ run' = [run EXCEPT ![p] = Gate(run[p])]
    /\ UNCHANGED <<fn, procs, limit, comments, nextId, runs>>

TemplateContext(r, logs) ==
    [BuildNumber |-> r.droneBuildNumberInt,
     DroneServer |-> r.env.systemProto \o <<"://">> \o r.env.systemHostname,
     Labels |-> r.labels,
     Logs |-> logs,
     PullRequest |-> r.dronePullRequestInt,
     RepoName |-> r.env.repoName,
     RepoOwner |-> r.env.repoOwner,
     SHA |-> r.env.commitSHA,
     StageName |-> r.env.stage,
     StageNumber |-> r.stageNumber,
     Status |-> r.status,
     StepName |-> r.env.step,
     StepNumber |-> r.stepNumber]

\* The run after the log lines are fetched: the curation of the lines and
\* the template.  comment is assigned what templateComment returns, with
\* the error or without; with the error the run returns it.
Rendered(r, lines) ==
    LET logs == CurateLogs(lines, r.pluginVerbatimBool)
        out == templateComment(TemplateContext(r, logs))
        rendered == [r EXCEPT !.comment = out.body]
    IN IF ~out.ok THEN Return(rendered, "err", "template")
       ELSE [rendered EXCEPT !.pc = "create"]

\* The run after the log fetch failed: return err.
LogsFailed_GoesOn(r) == Rendered(r, <<>>)

LogsFailed(r) == Return(r, "err", "Logs")

\* droneClient.Logs(...), then the curation of the lines and the template.
FetchLogs(p) ==
    LET r == run[p]
    IN /\ r.pc = "logs"
       /\ \/ run' = [run EXCEPT ![p] =
                LogsFailed([r EXCEPT !.calls = Append(@, Call("Logs", FALSE, 0))])]
          \/ \E lines \in LogSets :
                run' = [run EXCEPT ![p] =
                   Rendered([r EXCEPT !.calls = Append(@, Call("Logs", TRUE, 0))],
                            lines)]
       /\ UNCHANGED <<fn, procs, limit, comments, nextId, runs>>

\* githubClient.Issues.CreateComment(...)
CreateComment(p) ==
    LET r == run[p]
    IN /\ r.pc = "create"
       /\ \/ /\ run' = [run EXCEPT ![p] =
                   Return([r EXCEPT !.calls = Append(@, Call("CreateComment", FALSE, 0))],
                          "err", "CreateComment")]
             /\ UNCHANGED <<comments, nextId>>
          \/ /\ comments' = Append(comments,
                   [id |-> nextId, user |-> r.githubUser, body |-> r.comment,
                    tag |-> [run |-> r.ordinal, labels |-> r.labels,
                             keep |-> r.pluginKeepBool]])
             /\ nextId' = nextId + 1
             /\ run' = [run EXCEPT ![p] =
                   Return([r EXCEPT !.calls = Append(@, Call("CreateComment", TRUE, nextId)),
                                    !.created = nextId],
                          "ok", "")]
       /\ UNCHANGED <<fn, procs, limit, runs>>

Next ==
    \E p \in Instances :
        \/ Start(p)
        \/ Validate(p)
        \/ DroneSelf(p)
        \/ GithubUser(p)
        \/ FetchBuild(p)
        \/ ListComments(p)
        \/ DeleteComment(p)
        \/ StatusGate(p)
        \/ FetchLogs(p)
        \/ CreateComment(p)

Spec == Init /\ [][Next]_vars

SpecRuns == InitRuns /\ [][Next]_vars

SpecSideBySide == InitSideBySide /\ [][Next]_vars

\* ------------------------------------------------ the helpers on their own

\* The variables of the plugin's run.
pipeline == <<procs, limit, comments, nextId, runs, run>>

\* No run of the plugin is started.
NoRun ==
    /\ procs = {}
    /\ limit = 0
    /\ comments = <<>>
    /\ nextId = 1
    /\ runs = 0
    /\ run = [p \in Instances |-> Idle]

\* The statuses the steps of a build are given: by their place, so that the
\* steps of a build differ in them.
Statuses == <<StatusPassing, StatusFailing, <<"running">>>>

StatusAt(stageNumber, stepNumber) ==
    Statuses[((stageNumber + stepNumber) % Len(Statuses)) + 1]

\* A stage by its name and the names of its steps.
StageShapes ==
    [name : StageNames,
     steps : UNION {[1..n -> StepNames] : n \in 0..MaxSteps}]

\* A build of the stages, which the server numbers from 1, as it does the
\* steps of each stage.
BuildOf(shapes) ==
    [Stages |->
        [i \in 1..Len(shapes) |->
            Stage(shapes[i].name, i,
                  [j \in 1..Len(shapes[i].steps) |->
                      Step(shapes[i].steps[j], j, StatusAt(i, j))])]]

\* Builds of any stages and steps, names repeated or not.
ResolverBuilds ==
    {BuildOf(shapes) :
        shapes \in UNION {[1..n -> StageShapes] : n \in 0..MaxStages}}

InitResolve ==
    /\ NoRun
    /\ \E build \in ResolverBuilds, stageName \in StageNames,
          stepName \in StepNames :
          fn = [pc |-> "resolve", build |-> build, stageName |-> stageName,
                stepName |-> stepName, out |-> NotFound]

\* stageNumber, stepNumber, status, found :=
\*     resolveBuildStageAndStep(droneBuild, pluginStage, pluginStep)
Resolve ==
    /\ fn.pc = "resolve"
    /\ fn' = [fn EXCEPT
                !.pc = "resolved",
                !.out = resolveBuildStageAndStep(fn.build, fn.stageName,
                                                 fn.stepName)]
    /\ UNCHANGED pipeline

NextResolve == Resolve

SpecResolve == InitResolve /\ [][NextResolve]_vars

\* The messages of the log lines the curation is applied to: empty, blank
\* with and without a newline, with a carriage return, starting with "+",
\* starting with a blank before a "+", ending in two newlines.
Messages ==
    {<<>>, <<" ", " ">>, <<"a">>, <<"b", NL>>, <<"+", "ls", NL>>,
     <<"\t", CR, NL>>, <<" ", "+", "x", NL, NL>>}

\* Six lines whose first two and last are blank, and one blank between.
BlankEdgedLines == <<<<>>, <<" ", " ">>, <<"a">>, <<>>, <<"b">>, <<>>>>

LineLists ==
    UNION {[1..n -> Messages] : n \in 0..MaxLines} \cup {BlankEdgedLines}

InitCurate ==
    /\ NoRun
    /\ \E lines \in LineLists, verbatim \in BOOLEAN :
          fn = [pc |-> "keep", lines |-> lines, verbatim |-> verbatim,
                kept |-> <<>>, logs |-> <<>>, round |-> 1, first |-> <<>>,
                firstVerbatim |-> verbatim]

\* The loop over the fetched lines.
Keep ==
    /\ fn.pc = "keep"
    /\ fn' = [fn EXCEPT !.pc = "trim",
                        !.kept = KeepLogs(fn.lines, fn.verbatim),
                        !.logs = KeepLogs(fn.lines, fn.verbatim)]
    /\ UNCHANGED pipeline

\* logs = trimBlankLogs(logs)
Trim ==
    /\ fn.pc = "trim"
    /\ fn' = [fn EXCEPT !.pc = "curated", !.logs = trimBlankLogs(fn.logs)]
    /\ UNCHANGED pipeline

\* The curated lines are the messages of the lines of another step.
CurateAgain ==
    /\ fn.pc = "curated"
    /\ fn.round = 1
    /\ \E verbatim \in BOOLEAN :
          fn' = [fn EXCEPT !.pc = "keep", !.lines = fn.logs,
                           !.verbatim = verbatim, !.kept = <<>>,
                           !.logs = <<>>, !.round = 2, !.first = fn.logs]
    /\ UNCHANGED pipeline

NextCurate == Keep \/ Trim \/ CurateAgain

SpecCurate == InitCurate /\ [][NextCurate]_vars

\* The lines of the comment bodies the matcher is applied to: metadata
\* lines of the labels' keys and of another key, with white space around
\* the key and the value, before a carriage return, before other text
\* with and without a closing parenthesis, after a blank; a line without
\* "="; a line of text of one byte less than MaxScanTokenSize, and one of
\* MaxScanTokenSize bytes.
BodyLines ==
    {MetaLine(<<"stage">>, <<"a">>),
     MetaLine(<<"stage">>, <<"b">>),
     MetaLine(<<"step">>, <<"x">>),
     MetaLine(<<" ", "step">>, <<"y", "\t">>),
     MetaLine(<<"stage">>, <<"a">>) \o <<CR>>,
     MetaLine(<<"step">>, <<"x">>) \o <<" ", "thanks">>,
     MetaLine(<<"stage">>, <<"a">>) \o <<" ", "(", "sic", ")">>,
     MetaLine(<<"build">>, <<"4", "2">>),
     <<" ">> \o MetaLine(<<"stage">>, <<"a">>),
     <<MetaOpen, "stage", ")">>,
     <<LongRun>>,
     <<LongRun, "y">>}

RECURSIVE JoinLines(_)
JoinLines(lines) ==
    IF lines = <<>> THEN <<>>
    ELSE IF Len(lines) = 1 THEN Head(lines)
    ELSE Head(lines) \o <<NL>> \o JoinLines(Tail(lines))

Bodies ==
    {JoinLines(lines) :
        lines \in UNION {[1..n -> BodyLines] : n \in 0..MaxBodyLines}}

\* The labels of the runs.
LabelSets == {Labels(sg, st) : sg \in StageNames, st \in StepNames}

\* The labels of a run, and maps of one key and of none.
LabelMaps == LabelSets \cup {EmptyMap, [k \in {<<"step">>} |-> <<"x">>]}

InitMatch ==
    /\ NoRun
    /\ \E comment \in Bodies, labels \in LabelMaps :
          fn = [pc |-> "match", comment |-> comment, labels |-> labels,
                out |-> FALSE]

\* hasMarkdownLabels(existingComment.GetBody(), labels)
Match ==
    /\ fn.pc = "match"
    /\ fn' = [fn EXCEPT !.pc = "matched",
                        !.out = hasMarkdownLabels(fn.comment, fn.labels)]
    /\ UNCHANGED pipeline

NextMatch == Match

SpecMatch == InitMatch /\ [][NextMatch]_vars

\* Curated log lines: output of the step, which may have the form of the
\* metadata lines.
CuratedLines ==
    {<<"ok">>,
     MetaLine(<<"stage">>, <<"a">>),
     MetaLine(<<"step">>, <<"x">>),
     MetaLine(<<"step">>, <<"y">>)}

CuratedLists == UNION {[1..n -> CuratedLines] : n \in 0..MaxLogs}

\* The templateContext of a run of BaseEnv for the stage and the step, the
\* step being the first of the first stage and passing.
ContextOf(stage, step, logs) ==
    TemplateContext(
        [Idle EXCEPT !.env = [BaseEnv EXCEPT !.stage = stage, !.step = step],
                     !.droneBuildNumberInt = Atoi(BaseEnv.buildNumber),
                     !.dronePullRequestInt = Atoi(BaseEnv.pullRequest),
                     !.stageNumber = 1, !.stepNumber = 1,
                     !.status = StatusPassing,
                     !.labels = Labels(stage, step)],
        logs)

InitRender ==
    /\ NoRun
    /\ \E stage \in StageNames, step \in StepNames,
          logs \in CuratedLists, otherLogs \in CuratedLists :
          fn = [pc |-> "render",
                params |-> ContextOf(stage, step, logs),
                otherParams |-> ContextOf(stage, step, otherLogs),
                comment |-> <<>>, otherComment |-> <<>>,
                labels |-> NoLabels, out |-> FALSE, otherOut |-> FALSE]

\* comment, err := templateComment(templateContext{...}), of a run and of
\* another run of the same labels.
Render ==
    /\ fn.pc = "render"
    /\ fn' = [fn EXCEPT !.pc = "rendered",
                        !.comment = templateComment(fn.params).body,
                        !.otherComment = templateComment(fn.otherParams).body]
    /\ UNCHANGED pipeline

\* hasMarkdownLabels, of a later run with any labels, on the two comments.
MatchRendered ==
    /\ fn.pc = "rendered"
    /\ \E labels \in LabelSets :
          fn' = [fn EXCEPT
                    !.pc = "matched",
                    !.labels = labels,
                    !.out = hasMarkdownLabels(fn.comment, labels),
                    !.otherOut = hasMarkdownLabels(fn.otherComment, labels)]
    /\ UNCHANGED pipeline

NextRender == Render \/ MatchRendered

SpecRender == InitRender /\ [][NextRender]_vars

\* ------------------------------------------------------ what the claims use

Done(p) == run[p].pc = "done"

Ids(cs) == {cs[i].id : i \in 1..Len(cs)}

\* The comments of `cs` whose id is not in `ids`, in order.
Kept(cs, ids) == SelectSeq(cs, LAMBDA c : c.id \in ids)

\* The calls of a run to one operation.
CallsTo(r, ops) == {i \in 1..Len(r.calls) : r.calls[i].op \in ops}

\* Line i of the body is a metadata line that gives `key` the value `val`,
\* and no later metadata line gives the key again.
GivesLast(lines, i, key, val) ==
    /\ regexMarkdownMetadata(lines[i])
    /\ TrimSpace(MatchKey(lines[i])) = key
    /\ TrimSpace(MatchVal(lines[i])) = val
    /\ \A j \in (i + 1)..Len(lines) :
          ~(regexMarkdownMetadata(lines[j])
            /\ TrimSpace(MatchKey(lines[j])) = key)

\* The body carries metadata in which every key of the labels is present
\* with the label's value.
Carries(body, labels) ==
    LET lines == ScanLines(body)
    IN \A key \in DOMAIN labels :
          \E i \in 1..Len(lines) : GivesLast(lines, i, key, labels[key])

\* The run may delete the comment: it is the run's own identity's and
\* carries the run's labels.
Deletable(r, c) == c.user = r.githubUser /\ Carries(c.body, r.labels)

\* Every comment that was there when the run started and is there no
\* longer is one the run may delete.
OnlyDeletable(r) ==
    \A i \in 1..Len(r.before) :
        r.before[i].id \notin Ids(comments) => Deletable(r, r.before[i])

\* The gate's silent case: passing under 'failure', failing under 'success'.
PolicySkips(r) ==
    \/ r.status = StatusPassing /\ r.env.when = <<"failure">>
    \/ r.status = StatusFailing /\ r.env.when = <<"success">>

\* C1 as stated: when the step is passing and the policy is 'failure', or
\* failing and the policy 'success', the run ends in success and the
\* comment list after the run equals the list before it.
C1_NoActionOnPolicySkip ==
    \A p \in procs :
        (Done(p) /\ PolicySkips(run[p])) =>
            /\ run[p].result = "ok"
            /\ comments = run[p].before

\* C1 amended: in that case the run ends in success and creates no comment
\* (no log fetch, no create call); with keep-history on the comment list is
\* the list before the run; with keep-history off the list is the list
\* before the run without some comments of the run's own identity that
\* carry its labels.
C1_PolicySkipCreatesNothing ==
    \A p \in procs :
        (Done(p) /\ PolicySkips(run[p])) =>
            /\ run[p].result = "ok"
            /\ run[p].created = 0
            /\ CallsTo(run[p], {"Logs", "CreateComment"}) = {}
            /\ comments = Kept(run[p].before, Ids(comments))
            /\ OnlyDeletable(run[p])
            /\ run[p].pluginKeepBool => comments = run[p].before

\* A policy skip that came after the deletion of a stale comment.
C1_Witness ==
    \E p \in procs :
        /\ Done(p) /\ PolicySkips(run[p]) /\ run[p].result = "ok"
        /\ Len(comments) < Len(run[p].before)

\* C2 as stated: after runs that completed successfully with keep-history
\* off (every listing and deletion succeeding), at most one comment that a
\* run of the label set posted under the author's identity remains.
C2_AtMostOneSurvives ==
    \A p \in procs :
        (/\ Done(p) /\ run[p].result = "ok" /\ ~run[p].pluginKeepBool
         /\ \A i \in 1..Len(run[p].calls) : run[p].calls[i].ok) =>
            Cardinality({i \in 1..Len(comments) :
                            /\ comments[i].user = run[p].githubUser
                            /\ comments[i].tag.run > 0
                            /\ ~comments[i].tag.keep
                            /\ comments[i].tag.labels = run[p].labels}) <= 1

\* C3: a comment is deleted only if the run's own identity wrote it and its
\* body carries every label of the run with the same value; every other
\* comment stays, unchanged and in place.
C3_DeletesOnlyOwnTagged ==
    \A p \in procs :
        /\ OnlyDeletable(run[p])
        /\ Kept(run[p].before, Ids(comments))
              = Kept(comments, Ids(run[p].before))

\* A run that deleted a comment and left another user's comment of the same
\* metadata, and one of its own identity with another step, in place.
C3_Witness ==
    \E p \in procs :
        /\ Done(p)
        /\ \E i \in 1..Len(run[p].before) :
              run[p].before[i].id \notin Ids(comments)
        /\ \E i \in 1..Len(comments) :
              /\ comments[i].id \in Ids(run[p].before)
              /\ \/ /\ comments[i].user # run[p].githubUser
                    /\ Carries(comments[i].body, run[p].labels)
                 \/ /\ comments[i].user = run[p].githubUser
                    /\ ~Carries(comments[i].body, run[p].labels)

\* C4 as stated: instances whose labels differ in the stage or the step
\* never delete each other's comments: when both runs have finished, the
\* comment each created is still on the pull request.
C4_OtherInstanceCommentStays ==
    \A p \in procs : \A q \in procs \ {p} :
        (/\ Done(p) /\ Done(q)
         /\ run[p].labels \in LabelSets /\ run[q].labels \in LabelSets
         /\ run[p].labels # run[q].labels
         /\ run[p].created # 0) =>
            run[p].created \in Ids(comments)

\* C5 as stated: the comment rendered with a label set matches that label
\* set, and matches no label set that differs from it in some value.
C5_RenderedMatchesOwnLabels ==
    \A p \in procs :
        run[p].comment # <<>> =>
            /\ hasMarkdownLabels(run[p].comment, run[p].labels)
            /\ \A other \in LabelSets \ {run[p].labels} :
                  ~hasMarkdownLabels(run[p].comment, other)

\* C6: without a pull-request number the run ends in success and has made
\* no remote call, whichever other settings are missing; the comments are
\* untouched.
C6_NoPullRequestNoCalls ==
    \A p \in procs :
        (Done(p) /\ run[p].env.pullRequest = <<>>) =>
            /\ run[p].result = "ok"
            /\ run[p].calls = <<>>
            /\ comments = run[p].before

\* A finished run that had neither a pull-request number nor a token.
C6_Witness ==
    \E p \in procs :
        /\ Done(p) /\ run[p].result = "ok"
        /\ run[p].env.pullRequest = <<>>
        /\ run[p].env.githubToken = <<>>

\* The comment the run created, as GitHub holds it.
IsCreated(r, c) ==
    /\ c.id = r.created
    /\ c.id \notin Ids(r.before)
    /\ c.user = r.githubUser
    /\ c.body = r.comment

\* C7: with keep-history on the run lists nothing and deletes nothing; the
\* comment list is the list before the run, followed after a successful
\* publication by the one comment the run created.
C7_KeepOnlyCreates ==
    \A p \in procs :
        run[p].pluginKeepBool =>
            /\ CallsTo(run[p], {"ListComments", "DeleteComment"}) = {}
            /\ \/ comments = run[p].before /\ run[p].created = 0
               \/ /\ Done(p) /\ run[p].result = "ok"
                  /\ Len(comments) = Len(run[p].before) + 1
                  /\ SubSeq(comments, 1, Len(run[p].before)) = run[p].before
                  /\ IsCreated(run[p], comments[Len(comments)])

\* A run that kept history, published, and left in place a comment that a
\* run without keep-history would have deleted.
C7_Witness ==
    \E p \in procs :
        /\ Done(p) /\ run[p].pluginKeepBool /\ run[p].created # 0
        /\ \E i \in 1..Len(comments) :
              /\ comments[i].id \in Ids(run[p].before)
              /\ Deletable(run[p], comments[i])

\* The run is past its loop over the existing comments.
PastLoop(r) == r.pc \in {"gate", "logs", "create", "done"}

BestEffort == {"ListComments", "DeleteComment"}

\* C8: a failed listing or deletion never ends the run in failure: the run
\* that ends right after one ends at the status gate, for the status.  After
\* a failed listing nothing is deleted.  After a successful one, once the
\* loop is over, every listed comment the run may delete has had its one
\* deletion call, failed ones before it or not, and no other comment has.
C8_BestEffortCleanup ==
    \A p \in procs :
        LET r == run[p]
            dels == CallsTo(r, {"DeleteComment"})
        IN /\ (/\ r.calls # <<>>
               /\ r.calls[Len(r.calls)].op \in BestEffort
               /\ ~r.calls[Len(r.calls)].ok) =>
                  /\ r.pc \in {"delete", "gate", "logs", "done"}
                  /\ (Done(p) /\ r.result = "err") =>
                        /\ r.err = "status"
                        /\ r.status \notin {StatusPassing, StatusFailing}
           /\ (\E i \in CallsTo(r, {"ListComments"}) : ~r.calls[i].ok) =>
                  /\ dels = {}
                  /\ Ids(r.before) \subseteq Ids(comments)
           /\ (PastLoop(r) /\ ~r.pluginKeepBool) =>
                  /\ \A i \in 1..Len(r.existingComments) :
                        Cardinality({j \in dels :
                            r.calls[j].id = r.existingComments[i].id})
                          = IF Deletable(r, r.existingComments[i]) THEN 1 ELSE 0
                  /\ \A j \in dels : r.calls[j].id \in Ids(r.existingComments)

\* A run that published after a deletion failed and a later one succeeded.
C8_Witness ==
    \E p \in procs :
        /\ Done(p) /\ run[p].result = "ok" /\ run[p].created # 0
        /\ \E i, j \in CallsTo(run[p], {"DeleteComment"}) :
              i < j /\ ~run[p].calls[i].ok /\ run[p].calls[j].ok

\* A run that published after its listing failed.
C8_WitnessList ==
    \E p \in procs :
        /\ Done(p) /\ run[p].result = "ok" /\ run[p].created # 0
        /\ \E i \in CallsTo(run[p], {"ListComments"}) : ~run[p].calls[i].ok

Fatal == {"Self", "Users.Get", "Build", "Logs", "CreateComment"}

\* C9: a failed identity, build or log fetch, or a failed creation, is the
\* run's last call and ends it in failure; none of these calls is made
\* twice; the run of a failed call created no comment.
C9_FatalCallsAbort ==
    \A p \in procs :
        LET r == run[p]
        IN /\ \A i \in CallsTo(r, Fatal) :
                 ~r.calls[i].ok =>
                    /\ i = Len(r.calls)
                    /\ Done(p) /\ r.result = "err" /\ r.err = r.calls[i].op
                    /\ r.created = 0
                    /\ \A k \in 1..Len(comments) :
                          comments[k].tag.run # r.ordinal
           /\ \A op \in Fatal : Cardinality(CallsTo(r, {op})) <= 1

\* A run that ended in failure on its log fetch, after deleting a comment.
C9_Witness ==
    \E p \in procs :
        /\ Done(p) /\ run[p].result = "err" /\ run[p].err = "Logs"
        /\ Len(comments) < Len(run[p].before)

\* The step was resolved and its status is neither passing nor failing.
NotTerminal(r) ==
    /\ r.labels \in LabelSets
    /\ r.status \notin {StatusPassing, StatusFailing}

\* C10 as stated: with a status that is neither passing nor failing the run
\* ends in failure, has created no comment and has deleted none.
C10_NonTerminalAbortsUntouched ==
    \A p \in procs :
        (Done(p) /\ NotTerminal(run[p])) =>
            /\ run[p].result = "err"
            /\ run[p].created = 0
            /\ comments = run[p].before

\* C10 amended: with such a status the run ends in failure for the status,
\* whatever the policy, without a log fetch or a create call; with
\* keep-history on the comment list is the list before the run; with
\* keep-history off the list is the list before the run without some
\* comments of the run's own identity that carry its labels.
C10_NonTerminalCreatesNothing ==
    \A p \in procs :
        (Done(p) /\ NotTerminal(run[p])) =>
            /\ run[p].result = "err" /\ run[p].err = "status"
            /\ run[p].created = 0
            /\ CallsTo(run[p], {"Logs", "CreateComment"}) = {}
            /\ comments = Kept(run[p].before, Ids(comments))
            /\ OnlyDeletable(run[p])
            /\ run[p].pluginKeepBool => comments = run[p].before

\* A run that failed for the status under the 'success' policy after it
\* had deleted a comment.
C10_Witness ==
    \E p \in procs :
        /\ Done(p) /\ NotTerminal(run[p]) /\ run[p].err = "status"
        /\ run[p].env.when = <<"success">>
        /\ Len(comments) < Len(run[p].before)

\* The place of the first stage of the name among the stages; 0 when no
\* stage has the name.
FirstNamed(stages, stageName) ==
    IF \E i \in 1..Len(stages) : stages[i].Name = stageName
    THEN CHOOSE i \in 1..Len(stages) :
            /\ stages[i].Name = stageName
            /\ \A k \in 1..(i - 1) : stages[k].Name # stageName
    ELSE 0

HasStep(stage, stepName) ==
    \E j \in 1..Len(stage.Steps) : stage.Steps[j].Name = stepName

\* C11: the resolution is found exactly when the first stage of the name
\* has a step of the name, and then gives that stage's number and the number
\* and status of a step of the name in it; a stage of the name without the
\* step fails the resolution whatever the later stages are, as does a build
\* without a stage of the name; the failed resolution is (0, 0, "", false).
C11_ResolvesInFirstStageOfName ==
    fn.pc = "resolved" =>
        LET stages == fn.build.Stages
            i == FirstNamed(stages, fn.stageName)
        IN /\ fn.out.found <=> (i # 0 /\ HasStep(stages[i], fn.stepName))
           /\ fn.out.found =>
                 /\ fn.out.stageNumber = stages[i].Number
                 /\ \E j \in 1..Len(stages[i].Steps) :
                       /\ stages[i].Steps[j].Name = fn.stepName
                       /\ fn.out.stepNumber = stages[i].Steps[j].Number
                       /\ fn.out.status = stages[i].Steps[j].Status
           /\ ~fn.out.found =>
                 /\ fn.out.stageNumber = 0
                 /\ fn.out.stepNumber = 0
                 /\ fn.out.status = <<>>

\* A resolution that failed in the first stage of the name while a later
\* stage of the name has the step.
C11_Witness ==
    /\ fn.pc = "resolved"
    /\ ~fn.out.found
    /\ \E i \in 1..Len(fn.build.Stages) :
          /\ i > FirstNamed(fn.build.Stages, fn.stageName)
          /\ fn.build.Stages[i].Name = fn.stageName
          /\ HasStep(fn.build.Stages[i], fn.stepName)

\* The line has a character that is not white space.
NonBlank(line) == \E i \in 1..Len(line) : ~IsSpace(line[i])

NonBlanks(lines) == {i \in 1..Len(lines) : NonBlank(lines[i])}

Least(S) == CHOOSE i \in S : \A j \in S : i <= j

Most(S) == CHOOSE i \in S : \A j \in S : j <= i

\* C12: the trimmed lines are the part of the lines from the first line that
\* is not blank to the last one that is not, blank lines in between
\* included, and no line when every line is blank or there is none; so
\* neither the first nor the last line of the output is blank.
C12_TrimKeepsFirstToLastNonBlank ==
    fn.pc = "curated" =>
        /\ fn.logs = IF NonBlanks(fn.kept) = {} THEN <<>>
                     ELSE SubSeq(fn.kept, Least(NonBlanks(fn.kept)),
                                 Most(NonBlanks(fn.kept)))
        /\ fn.logs # <<>> =>
              NonBlank(fn.logs[1]) /\ NonBlank(fn.logs[Len(fn.logs)])

\* The lines "", "  ", "a", "", "b", "" trimmed to "a", "", "b".
C12_Witness ==
    /\ fn.pc = "curated"
    /\ fn.kept = BlankEdgedLines
    /\ fn.logs = <<<<"a">>, <<>>, <<"b">>>>

\* The message without the newlines it ends in.
Stripped(line) ==
    IF \E i \in 1..Len(line) : line[i] # NL
    THEN SubSeq(line, 1, Most({i \in 1..Len(line) : line[i] # NL}))
    ELSE <<>>

StartsWithPlus(line) == Len(line) > 0 /\ line[1] = "+"

\* The places of the lines the curation keeps: the lines that do not start
\* with "+" (every line when verbatim is on), from the first of them that
\* is not blank to the last.
KeptPlaces(lines, verbatim) ==
    LET kept == {i \in 1..Len(lines) :
                    verbatim \/ ~StartsWithPlus(Stripped(lines[i]))}
        solid == {i \in kept : NonBlank(lines[i])}
    IN IF solid = {} THEN {}
       ELSE {i \in kept : Least(solid) <= i /\ i <= Most(solid)}

\* The k-th place of S, from the least.
Place(S, k) == CHOOSE i \in S : Cardinality({j \in S : j <= i}) = k

\* C13: the curated lines are, in order and each without the newlines it
\* ends in, the lines at the kept places: with verbatim off no line that
\* starts with "+" and every other line between the first and the last kept
\* line that is not blank; with verbatim on the lines that start with "+"
\* as any other line.
C13_CuratedDropsPlusLinesUnlessVerbatim ==
    fn.pc = "curated" =>
        LET places == KeptPlaces(fn.lines, fn.verbatim)
        IN /\ Len(fn.logs) = Cardinality(places)
           /\ \A k \in 1..Len(fn.logs) :
                 fn.logs[k] = Stripped(fn.lines[Place(places, k)])
           /\ ~fn.verbatim =>
                 \A k \in 1..Len(fn.logs) : ~StartsWithPlus(fn.logs[k])

\* A curation with verbatim off of lines in which a line that starts with
\* "+" lies between two kept lines and another one before the first line
\* that is not blank.
C13_Witness ==
    /\ fn.pc = "curated"
    /\ fn.round = 1
    /\ ~fn.verbatim
    /\ Len(fn.logs) = 2
    /\ Len(fn.lines) = 4
    /\ StartsWithPlus(fn.lines[1])
    /\ StartsWithPlus(fn.lines[3])

\* The lines are curated: none starts with "+", none ends in a newline, and
\* neither the first nor the last is blank.
AlreadyCurated(lines) ==
    /\ \A i \in 1..Len(lines) :
          /\ ~StartsWithPlus(lines[i])
          /\ lines[i] = Stripped(lines[i])
    /\ lines # <<>> => NonBlank(lines[1]) /\ NonBlank(lines[Len(lines)])

\* C16: the curation of curated lines returns them, verbatim on or off; and
\* the curation of the lines a curation returned, with the same value of
\* verbatim, returns them.
C16_CurationIdempotent ==
    fn.pc = "curated" =>
        /\ AlreadyCurated(fn.lines) => fn.logs = fn.lines
        /\ (fn.round = 2 /\ fn.verbatim = fn.firstVerbatim) =>
              fn.logs = fn.first

\* A second curation, verbatim on, of lines of which the first dropped some
\* and kept one that starts with "+".
C16_Witness ==
    /\ fn.pc = "curated"
    /\ fn.round = 2
    /\ fn.verbatim /\ fn.firstVerbatim
    /\ fn.logs = fn.first
    /\ Len(fn.first) = 2
    /\ \E k \in 1..Len(fn.logs) : StartsWithPlus(fn.logs[k])

\* The line is [//]: # (KEY=VALUE) and nothing else: it starts with the
\* opening, ends with the closing parenthesis, and has a key before its
\* first "=".
ExactForm(line) ==
    /\ Len(line) >= 4
    /\ line[1] = MetaOpen
    /\ line[Len(line)] = ")"
    /\ \E i \in 3..(Len(line) - 1) :
          line[i] = "=" /\ \A j \in 2..(i - 1) : line[j] # "="

ExactKey(line) ==
    SubSeq(line, 2, Least({i \in 1..Len(line) : line[i] = "="}) - 1)

ExactVal(line) ==
    SubSeq(line, Least({i \in 1..Len(line) : line[i] = "="}) + 1,
           Len(line) - 1)

\* What the lines of that form record for the key: the trimmed value of the
\* last of them whose trimmed key is the key; the empty set when none is.
Recorded(lines, key) ==
    LET giving == {i \in 1..Len(lines) :
                      /\ ExactForm(lines[i])
                      /\ TrimSpace(ExactKey(lines[i])) = key}
    IN IF giving = {} THEN {}
       ELSE {TrimSpace(ExactVal(lines[Most(giving)]))}

\* Every line of the body, however long: the text between the newlines,
\* without a carriage return before the newline.
RECURSIVE LinesFrom(_, _, _)
LinesFrom(body, i, cur) ==
    LET line == IF cur # <<>> /\ cur[Len(cur)] = CR
                THEN SubSeq(cur, 1, Len(cur) - 1) ELSE cur
    IN IF i > Len(body) THEN (IF cur = <<>> THEN <<>> ELSE <<line>>)
       ELSE IF body[i] = NL THEN <<line>> \o LinesFrom(body, i + 1, <<>>)
       ELSE LinesFrom(body, i + 1, Append(cur, body[i]))

EveryLine(body) == LinesFrom(body, 1, <<>>)

\* C14 as stated: the matcher reports a match exactly when every key of the
\* labels is recorded, by the body's lines of the form [//]: # (KEY=VALUE),
\* with the label's value.
C14_MatchesExactFormLines ==
    fn.pc = "matched" =>
        (fn.out <=> \A key \in DOMAIN fn.labels :
                       Recorded(EveryLine(fn.comment), key)
                          = {fn.labels[key]})

\* The line starts with [//]: # (KEY=VALUE): it starts with the opening, has
\* a key before its first "=" and a closing parenthesis after it.
StartsWithForm(line) ==
    /\ Len(line) >= 4
    /\ line[1] = MetaOpen
    /\ \E i \in 3..(Len(line) - 1) :
          /\ line[i] = "=" /\ \A j \in 2..(i - 1) : line[j] # "="
          /\ \E k \in (i + 1)..Len(line) : line[k] = ")"

\* The value of such a line: the text from its first "=" to its last
\* closing parenthesis.
StartVal(line) ==
    SubSeq(line, Least({i \in 1..Len(line) : line[i] = "="}) + 1,
           Most({i \in 1..Len(line) : line[i] = ")"}) - 1)

RecordedFromStart(lines, key) ==
    LET giving == {i \in 1..Len(lines) :
                      /\ StartsWithForm(lines[i])
                      /\ TrimSpace(ExactKey(lines[i])) = key}
    IN IF giving = {} THEN {}
       ELSE {TrimSpace(StartVal(lines[Most(giving)]))}

\* C14 with the form read as the start of a line, whatever follows the
\* closing parenthesis being passed over: the matcher reports a match
\* exactly when every key of the labels is recorded with the label's value
\* by the body's lines that start with [//]: # (KEY=VALUE).  It fails as
\* well: the lines of a body from its first line of MaxScanTokenSize bytes
\* on are not read.
C14_MatchesLinesStartingWithForm ==
    fn.pc = "matched" =>
        (fn.out <=> \A key \in DOMAIN fn.labels :
                       RecordedFromStart(EveryLine(fn.comment), key)
                          = {fn.labels[key]})

\* The lines before the first line of MaxScanTokenSize bytes or more.
RECURSIVE BeforeLong(_)
BeforeLong(lines) ==
    IF lines = <<>> \/ ByteLen(Head(lines)) >= MaxScanTokenSize THEN <<>>
    ELSE <<Head(lines)>> \o BeforeLong(Tail(lines))

\* What the matcher does: it reports a match exactly when every key of the
\* labels is recorded with the label's value by the lines that start with
\* the form and come before the first line of MaxScanTokenSize bytes.
C14_MatchesLinesBeforeLong ==
    fn.pc = "matched" =>
        (fn.out <=> \A key \in DOMAIN fn.labels :
                       RecordedFromStart(BeforeLong(EveryLine(fn.comment)), key)
                          = {fn.labels[key]})

\* The matcher has reported no match for labels that the lines of the body
\* give, one of them after a line of MaxScanTokenSize bytes.
C14_WitnessLong ==
    /\ fn.pc = "matched"
    /\ ~fn.out
    /\ DOMAIN fn.labels = LabelKeys
    /\ LET lines == EveryLine(fn.comment)
       IN /\ Len(lines) = 3
          /\ ExactForm(lines[1])
          /\ ByteLen(lines[2]) = MaxScanTokenSize
          /\ ExactForm(lines[3])
          /\ \A key \in DOMAIN fn.labels :
                Recorded(lines, key) = {fn.labels[key]}

\* The policy is 'always', unset, or the one that names the step's status.
PolicyPermits(r) ==
    \/ r.env.when \in {<<>>, <<"always">>}
    \/ r.env.when = <<"success">> /\ r.status = StatusPassing
    \/ r.env.when = <<"failure">> /\ r.status = StatusFailing

\* The run has a pull request, has resolved its step to a terminal status
\* that the policy permits, and every fatal remote call it made succeeded.
GoodRun(r) ==
    /\ r.env.pullRequest # <<>>
    /\ r.labels \in LabelSets
    /\ r.status \in {StatusPassing, StatusFailing}
    /\ PolicyPermits(r)
    /\ \A i \in CallsTo(r, Fatal) : r.calls[i].ok

\* The run ended in success and made one create call, whose comment is on
\* the pull request.
CreatedOne(r) ==
    /\ r.result = "ok"
    /\ Cardinality(CallsTo(r, {"CreateComment"})) = 1
    /\ r.created # 0
    /\ \E i \in 1..Len(comments) : IsCreated(r, comments[i])
    /\ Cardinality({i \in 1..Len(comments) :
                       comments[i].id \notin Ids(r.before)}) = 1

\* C15 as stated: with a pull request, a terminal step status that the
\* policy permits and every fatal remote call succeeding, the run that has
\* ended has ended in success and has created exactly one comment.
C15_GoodRunCreatesOne ==
    \A p \in procs :
        (Done(p) /\ GoodRun(run[p])) => CreatedOne(run[p])

\* C15 amended: under those conditions the run that has ended, when its
\* commit identifier has seven characters or more, has ended in success and
\* has created exactly one comment; when the identifier is shorter it has
\* ended in failure at the template, without a create call.
C15_GoodRunWithFullCommitCreatesOne ==
    \A p \in procs :
        LET r == run[p]
        IN (Done(p) /\ GoodRun(r)) =>
              IF Len(r.env.commitSHA) >= ShortSHALen
              THEN CreatedOne(r)
              ELSE /\ r.result = "err" /\ r.err = "template"
                   /\ CallsTo(r, {"CreateComment"}) = {}
                   /\ r.created = 0

\* A run under the 'failure' policy on a failing step that deleted a
\* comment and created one.
C15_Witness ==
    \E p \in procs :
        /\ Done(p) /\ GoodRun(run[p]) /\ CreatedOne(run[p])
        /\ run[p].env.when = <<"failure">>
        /\ \E i \in CallsTo(run[p], {"DeleteComment"}) : run[p].calls[i].ok

\* The run was given a step name and every other required setting, and no
\* stage name.
StepNameAlone(r) ==
    /\ r.env.stage = <<>>
    /\ \A f \in RequiredSet \ {"stage"} : r.env[f] # <<>>

\* C17 as stated: the run that was given a step name and no stage name does
\* not end in failure for the missing stage; when it has ended and its
\* remote calls have succeeded it has resolved the step of that name.
C17_StepNameAloneAccepted ==
    \A p \in procs :
        (Done(p) /\ StepNameAlone(run[p])) =>
            /\ ~(run[p].result = "err" /\ run[p].err = "stage")
            /\ run[p].calls # <<>>
            /\ (\A i \in 1..Len(run[p].calls) : run[p].calls[i].ok) =>
                  run[p].labels[<<"step">>] = run[p].env.step

\* The comment operations.
CommentOps == {"ListComments", "DeleteComment", "CreateComment"}

\* A required setting other than the pull request is missing.
SettingMissing(env) == \E f \in RequiredSet \ {"pullRequest"} : env[f] = <<>>

\* The text is a decimal number, with or without a sign.
IsNumber(s) ==
    \/ Len(s) >= 1 /\ \A i \in 1..Len(s) : IsDigit(s[i])
    \/ /\ Len(s) >= 2 /\ s[1] \in {"+", "-"}
       /\ \A i \in 2..Len(s) : IsDigit(s[i])

\* The text is a decimal number of more than 19 digits, none of them a
\* leading zero: a number that no int of 64 bits holds.
WideNumber(s) ==
    /\ IsNumber(s)
    /\ \E i \in 1..Len(s) :
          /\ IsDigit(s[i]) /\ s[i] # "0"
          /\ \A j \in 1..(i - 1) : s[j] \in {"+", "-", "0"}
          /\ Len(s) - i + 1 > 19

\* The run fetched a build that has no stage of the run's stage name, or
\* whose first stage of that name has no step of the run's step name.
ResolutionFails(r) ==
    /\ \E i \in CallsTo(r, {"Build"}) : r.calls[i].ok
    /\ LET i == FirstNamed(r.droneBuild.Stages, r.env.stage)
       IN i = 0 \/ ~HasStep(r.droneBuild.Stages[i], r.env.step)

\* C18: with a pull request, a run with a required setting missing or with
\* a build or pull-request number that is no number, or is a number too wide
\* for an int, does nothing but end in failure, without a remote call; a run
\* whose resolution fails ends in failure right after the build fetch,
\* without a comment operation; the comments are as before the run.
C18_BadSettingsFailBeforeComments ==
    \A p \in procs :
        LET r == run[p]
        IN (r.pc \notin {"idle", "validate"} /\ r.env.pullRequest # <<>>) =>
              /\ (\/ SettingMissing(r.env)
                  \/ ~IsNumber(r.env.buildNumber)
                  \/ ~IsNumber(r.env.pullRequest)
                  \/ WideNumber(r.env.buildNumber)
                  \/ WideNumber(r.env.pullRequest)) =>
                    /\ Done(p) /\ r.result = "err"
                    /\ r.calls = <<>>
                    /\ comments = r.before
              /\ ResolutionFails(r) =>
                    /\ Done(p) /\ r.result = "err" /\ r.err = "not found"
                    /\ r.calls[Len(r.calls)].op = "Build"
                    /\ CallsTo(r, CommentOps) = {}
                    /\ comments = r.before

\* A run that ended in failure at the resolution, its stage having no step
\* of the name and a matching comment being on the pull request.
C18_Witness ==
    \E p \in procs :
        /\ Done(p) /\ run[p].result = "err"
        /\ ResolutionFails(run[p])
        /\ FirstNamed(run[p].droneBuild.Stages, run[p].env.stage) # 0
        /\ \E i \in 1..Len(comments) :
              /\ comments[i].user = BotLogin
              /\ Carries(comments[i].body,
                         Labels(run[p].env.stage, run[p].env.step))

\* A run that ended in failure at a build number that is no number.
C18_WitnessNumber ==
    \E p \in procs :
        /\ Done(p) /\ run[p].result = "err" /\ run[p].err = "Atoi"
        /\ run[p].env.pullRequest # <<>>
        /\ ~SettingMissing(run[p].env)

\* C19 as stated: two comments rendered with the same labels, whatever their
\* curated log lines, give the same matcher result for every label set.
C19_MatchIndependentOfLogs ==
    fn.pc = "matched" => fn.out = fn.otherOut

\* C20: in a run every deletion call comes before the create call; the run
\* makes one listing call at most and one create call at most; the
\* deletion calls are for comments that were listed, and the comment the run
\* created is none of them and is not deleted while the run lasts.
C20_DeletesBeforeItsOneCreate ==
    \A p \in procs :
        LET r == run[p]
            dels == CallsTo(r, {"DeleteComment"})
            creates == CallsTo(r, {"CreateComment"})
        IN /\ \A i \in dels : \A j \in creates : i < j
           /\ Cardinality(CallsTo(r, {"ListComments"})) <= 1
           /\ Cardinality(creates) <= 1
           /\ \A i \in dels :
                 /\ r.calls[i].id \in Ids(r.existingComments)
                 /\ r.calls[i].id # r.created
           /\ r.created # 0 =>
                 /\ r.created \notin Ids(r.existingComments)
                 /\ r.created \in Ids(comments)

\* A run that deleted a comment and then created one whose body, for the
\* log lines in it, carries the run's own labels.
C20_Witness ==
    \E p \in procs :
        /\ Done(p) /\ run[p].created # 0
        /\ \E i \in CallsTo(run[p], {"DeleteComment"}) : run[p].calls[i].ok
        /\ Carries(run[p].comment, run[p].labels)

\* The comments of `cs` that were not there before the run.
Added(r, cs) == {i \in 1..Len(cs) : cs[i].id \notin Ids(r.before)}

\* C21: at every point of a run, each comment that was on the pull request
\* before the run and still is has the id, author, body and tag it had, and
\* these comments are in the order they were in; each comment that is gone
\* was the run's own identity's and matched its labels; one comment at most
\* was added, after all the others, and it is the one the run created.
C21_RunLeavesExistingCommentsAsTheyWere ==
    \A p \in procs :
        LET r == run[p]
        IN r.pc # "idle" =>
              /\ \A i \in 1..Len(comments) :
                    comments[i].id \in Ids(r.before) =>
                       \E k \in 1..Len(r.before) : r.before[k] = comments[i]
              /\ SelectSeq(comments, LAMBDA c : c.id \in Ids(r.before))
                    = SelectSeq(r.before, LAMBDA c : c.id \in Ids(comments))
              /\ \A k \in 1..Len(r.before) :
                    r.before[k].id \notin Ids(comments) =>
                       /\ r.before[k].user = r.githubUser
                       /\ hasMarkdownLabels(r.before[k].body, r.labels)
              /\ Cardinality(Added(r, comments)) <= 1
              /\ \A i \in Added(r, comments) :
                    i = Len(comments) /\ IsCreated(r, comments[i])

\* A run that removed one of two comments, left the other, and added one.
C21_Witness ==
    \E p \in procs :
        /\ Done(p)
        /\ Len(run[p].before) = 2
        /\ Len(comments) = 2
        /\ comments[1].id \in Ids(run[p].before)
        /\ comments[2].id = run[p].created
        /\ ~(comments[1].user = run[p].githubUser
             /\ hasMarkdownLabels(comments[1].body, run[p].labels))

\* The run has its log lines and is at or past the rendering.
AtRender(r) ==
    /\ r.calls # <<>>
    /\ \E i \in CallsTo(r, {"Logs"}) : r.calls[i].ok

\* C22 as stated: the context the run fills in after its validation, with
\* whatever commit identifier that is not empty, always renders: no run
\* ends in failure at the template.
C22_NoRunFailsAtRender ==
    \A p \in procs :
        AtRender(run[p]) =>
            /\ run[p].env.commitSHA # <<>>
            /\ ~(run[p].result = "err" /\ run[p].err = "template")
            /\ run[p].comment # <<>>

\* C22 amended: the context the run fills in renders exactly when its
\* commit identifier has seven characters or more, whatever its other
\* fields; with a shorter identifier, which the validation lets pass, the
\* run ends in failure at the template, right after its log fetch and
\* without a create call.
C22_RendersFromSevenCharacters ==
    \A p \in procs :
        LET r == run[p]
        IN /\ AtRender(r) =>
                 /\ r.env.commitSHA # <<>>
                 /\ IF Len(r.env.commitSHA) >= ShortSHALen
                    THEN /\ ~(r.result = "err" /\ r.err = "template")
                         /\ r.comment # <<>>
                         /\ r.pc \in {"create", "done"}
                    ELSE /\ Done(p)
                         /\ r.result = "err" /\ r.err = "template"
                         /\ r.calls[Len(r.calls)].op = "Logs"
                         /\ r.created = 0
                         /\ comments = Kept(r.before, Ids(comments))
           /\ (r.result = "err" /\ r.err = "template") => AtRender(r)

\* A run whose commit identifier has just seven characters and that created
\* its comment.
C22_Witness ==
    \E p \in procs :
        /\ Done(p) /\ run[p].created # 0
        /\ Len(run[p].env.commitSHA) = ShortSHALen

\* A run whose commit identifier is one character short and that ended in
\* failure at the template.
C22_WitnessShort ==
    \E p \in procs :
        /\ Done(p) /\ run[p].err = "template"
        /\ Len(run[p].env.commitSHA) = ShortSHALen - 1

====
